---------------------------- MODULE Spec2Model ----------------------------
(***************************************************************************)
(* A model of the question-answering relay of LLM_QA_CLI.py: the text      *)
(* normalizer (preprocess), the prompt builder (construct_prompt), the two *)
(* provider adapters (send_to_gemini, send_to_huggingface) and the         *)
(* fallback orchestrator (ask_llm).                                        *)
(*                                                                         *)
(* Python strings are TLA+ strings; a character is a string of length 1.   *)
(* Every other Python value (a parsed JSON document, an adapter's return   *)
(* value) is a tagged record, so that a value of the wrong type is a value *)
(* the model can hold and the code's isinstance tests can reject.          *)
(***************************************************************************)
EXTENDS Integers, Sequences, FiniteSets, TLC

VARIABLES
    env,        \* os.environ: variable name -> string, or Unset
    pc,         \* position of the one query in ask_llm / preprocess
    question,   \* ask_llm's argument
    processed,  \* local `processed`
    prompt,     \* local `prompt`
    errors,     \* local `errors`
    answer,     \* local `answer` (a Python value)
    source,     \* local `source`
    gemResp,    \* what requests.post gave send_to_gemini
    gemOut,     \* how send_to_gemini ended: returned a value, or raised
    hfResp,     \* what requests.post gave send_to_huggingface
    hfOut,      \* how send_to_huggingface ended
    log,        \* adapter invocations and their ends, in order
    posts,      \* the requests.post calls made, in order
    returned,   \* the records ask_llm returned to its caller
    raised      \* the exceptions ask_llm let through to its caller

vars == <<env, pc, question, processed, prompt, errors, answer, source,
          gemResp, gemOut, hfResp, hfOut, log, posts, returned, raised>>

-----------------------------------------------------------------------------
(* Bounds of the model. *)

\* Longest question the normalizer specification draws.
MaxLen == 5

-----------------------------------------------------------------------------
(* Python values. *)

PyStr(s)    == [t |-> "str", s |-> s]
PyInt(n)    == [t |-> "int", n |-> n]
PyNone      == [t |-> "NoneType"]
PyList(xs)  == [t |-> "list", items |-> xs]
\* A dict keeps its insertion order: a sequence of <<key, value>> pairs.
PyDict(kvs) == [t |-> "dict", pairs |-> kvs]

\* isinstance(v, <type>)
IsInstance(v, ty) == v.t = ty

\* key in d
HasKey(d, k) == \E i \in 1..Len(d.pairs) : d.pairs[i][1] = k

\* d[key], for a key the dict holds
GetItem(d, k) == d.pairs[CHOOSE i \in 1..Len(d.pairs) : d.pairs[i][1] = k][2]

\* d.get(key, default)
DictGet(d, k, default) == IF HasKey(d, k) THEN GetItem(d, k) ELSE default

\* bool(v) for the values the code tests for truth: a list or a string
Truthy(v) ==
    CASE v.t = "list" -> Len(v.items) > 0
      [] v.t = "str"  -> Len(v.s) > 0
      [] v.t = "dict" -> Len(v.pairs) > 0
      [] v.t = "int"  -> v.n # 0
      [] OTHER        -> FALSE

-----------------------------------------------------------------------------
(* Characters and strings. *)

UpperLetters == "ABCDEFGHIJKLMNOPQRSTUVWXYZ"
LowerLetters == "abcdefghijklmnopqrstuvwxyz"
Digits       == "0123456789"

CharAt(s, i) == SubSeq(s, i, i)

CharsOf(s) == {CharAt(s, i) : i \in 1..Len(s)}

\* str.isspace() / the regex class \s, on the characters the model uses
IsSpace(c) == c \in {" ", "\t", "\n", "\r"}

\* the regex class \w, on the characters the model uses
IsWord(c) == c \in CharsOf(UpperLetters) \cup CharsOf(LowerLetters)
                     \cup CharsOf(Digits) \cup {"_"}

\* str.lower() of one character
LowerChar(c) ==
    IF c \in CharsOf(UpperLetters)
    THEN CharAt(LowerLetters, CHOOSE i \in 1..26 : CharAt(UpperLetters, i) = c)
    ELSE c

RECURSIVE MapChars(_, _)
\* s with every character c replaced by the string tr[c]
MapChars(s, tr) ==
    IF Len(s) = 0 THEN ""
    ELSE tr[CharAt(s, 1)] \o MapChars(SubSeq(s, 2, Len(s)), tr)

\* str.lower()
Lower(s) == MapChars(s, [c \in CharsOf(s) |-> LowerChar(c)])

\* re.sub(r"[^\w\s]", "", s)
RemovePunct(s) ==
    MapChars(s, [c \in CharsOf(s) |-> IF IsWord(c) \/ IsSpace(c) THEN c ELSE ""])

RECURSIVE SplitFrom(_, _, _)
\* str.split() of the rest of s from position i on, `cur` being the token
\* read so far: the maximal runs of non-whitespace characters
SplitFrom(s, i, cur) ==
    IF i > Len(s) THEN (IF cur = "" THEN <<>> ELSE <<cur>>)
    ELSE IF IsSpace(CharAt(s, i))
         THEN (IF cur = "" THEN <<>> ELSE <<cur>>) \o SplitFrom(s, i + 1, "")
         ELSE SplitFrom(s, i + 1, cur \o CharAt(s, i))

\* str.split()
Split(s) == SplitFrom(s, 1, "")

RECURSIVE Join(_, _)
\* sep.join(parts), parts a sequence of strings
Join(sep, parts) ==
    IF Len(parts) = 0 THEN ""
    ELSE IF Len(parts) = 1 THEN parts[1]
    ELSE parts[1] \o sep \o Join(sep, Tail(parts))

RECURSIVE LStrip(_)
LStrip(s) ==
    IF Len(s) > 0 /\ IsSpace(CharAt(s, 1)) THEN LStrip(SubSeq(s, 2, Len(s))) ELSE s

RECURSIVE RStrip(_)
RStrip(s) ==
    IF Len(s) > 0 /\ IsSpace(CharAt(s, Len(s)))
    THEN RStrip(SubSeq(s, 1, Len(s) - 1)) ELSE s

\* str.strip()
Strip(s) == LStrip(RStrip(s))

RECURSIVE NatToStr(_)
NatToStr(n) ==
    IF n < 10 THEN CharAt(Digits, n + 1)
    ELSE NatToStr(n \div 10) \o CharAt(Digits, (n % 10) + 1)

\* str(n) of an int
IntToStr(n) == IF n < 0 THEN "-" \o NatToStr(0 - n) ELSE NatToStr(n)

-----------------------------------------------------------------------------
(* preprocess and construct_prompt. *)

\* preprocess with the tokens split and rejoined before the punctuation is
\* removed instead of after
preprocess_SplitBeforeSub(text) == RemovePunct(Join(" ", Split(Lower(text))))

preprocess(text) == Join(" ", Split(RemovePunct(Lower(text))))

construct_prompt(processed_question) ==
    "You are a helpful assistant. Answer concisely and clearly.\n"
    \o "Question: " \o processed_question \o "\nAnswer:"

-----------------------------------------------------------------------------
(* json.dumps(v) and str(v). *)

\* json.dumps's escapes, for the characters the model uses
JsonEscapeChar(c) ==
    CASE c = "\"" -> "\\\""
      [] c = "\\" -> "\\\\"
      [] c = "\n" -> "\\n"
      [] c = "\r" -> "\\r"
      [] c = "\t" -> "\\t"
      [] OTHER    -> c

JsonString(s) == "\"" \o MapChars(s, [c \in CharsOf(s) |-> JsonEscapeChar(c)]) \o "\""

RECURSIVE JsonDumps(_)
\* json.dumps(v), default separators (", " and ": ")
JsonDumps(v) ==
    CASE v.t = "str"      -> JsonString(v.s)
      [] v.t = "int"      -> IntToStr(v.n)
      [] v.t = "NoneType" -> "null"
      [] v.t = "list"     ->
            "[" \o Join(", ", [i \in 1..Len(v.items) |-> JsonDumps(v.items[i])]) \o "]"
      [] v.t = "dict"     ->
            "{" \o Join(", ", [i \in 1..Len(v.pairs) |->
                                 JsonString(v.pairs[i][1]) \o ": "
                                 \o JsonDumps(v.pairs[i][2])]) \o "}"

\* repr's escapes inside single quotes, for the characters the model uses
ReprEscapeChar(c) ==
    CASE c = "'"  -> "\\'"
      [] c = "\\" -> "\\\\"
      [] c = "\n" -> "\\n"
      [] c = "\r" -> "\\r"
      [] c = "\t" -> "\\t"
      [] OTHER    -> c

\* repr(s) of a string: single quotes, unless s holds ' and no "
ReprString(s) ==
    IF "'" \in CharsOf(s) /\ "\"" \notin CharsOf(s)
    THEN "\"" \o MapChars(s, [c \in CharsOf(s) |->
                                IF c = "'" THEN c ELSE ReprEscapeChar(c)]) \o "\""
    ELSE "'" \o MapChars(s, [c \in CharsOf(s) |-> ReprEscapeChar(c)]) \o "'"

RECURSIVE Repr(_)
\* repr(v)
Repr(v) ==
    CASE v.t = "str"      -> ReprString(v.s)
      [] v.t = "int"      -> IntToStr(v.n)
      [] v.t = "NoneType" -> "None"
      [] v.t = "list"     ->
            "[" \o Join(", ", [i \in 1..Len(v.items) |-> Repr(v.items[i])]) \o "]"
      [] v.t = "dict"     ->
            "{" \o Join(", ", [i \in 1..Len(v.pairs) |->
                                 ReprString(v.pairs[i][1]) \o ": "
                                 \o Repr(v.pairs[i][2])]) \o "}"

\* str(v): a string is itself, anything else its repr
ToStr(v) == IF v.t = "str" THEN v.s ELSE Repr(v)

-----------------------------------------------------------------------------
(* How a call ends: it returns a value or raises an exception. *)

NotCalled       == [kind |-> "none"]
Ret(v)          == [kind |-> "return", val |-> v]
Raise(ty, msg)  == [kind |-> "raise", type |-> ty, msg |-> msg]

\* v.strip(): an attribute only a str has
MethodStrip(v) ==
    IF v.t = "str" THEN Ret(PyStr(Strip(v.s)))
    ELSE Raise("AttributeError", "'" \o v.t \o "' object has no attribute 'strip'")

\* "".join(parts): every part must be a str
MethodJoin(parts) ==
    IF \A i \in 1..Len(parts) : parts[i].t = "str"
    THEN Ret(PyStr(Join("", [i \in 1..Len(parts) |-> parts[i].s])))
    ELSE LET i == CHOOSE j \in 1..Len(parts) :
                     /\ parts[j].t # "str"
                     /\ \A k \in 1..(j - 1) : parts[k].t = "str"
         IN  Raise("TypeError", "sequence item " \o IntToStr(i - 1)
                                \o ": expected str instance, " \o parts[i].t \o " found")

-----------------------------------------------------------------------------
(* The process environment. *)

Unset == [set |-> FALSE]
Val(s) == [set |-> TRUE, s |-> s]

\* os.getenv(name): None when unset
Getenv(e, name) == IF e[name].set THEN PyStr(e[name].s) ELSE PyNone

\* os.getenv(name, default)
GetenvDefault(e, name, default) == IF e[name].set THEN e[name].s ELSE default

EnvNames == {"GOOGLE_API_KEY", "GEMINI_API_KEY", "HUGGINGFACE_API_TOKEN",
             "GEMINI_MODEL", "GEMINI_BASE_URL"}

-----------------------------------------------------------------------------
(* What requests.post gives: a response, or a transport exception. *)

NoResp == [kind |-> "none"]
NotJson == [json |-> FALSE]
Json(v) == [json |-> TRUE, data |-> v]
HttpResponse(status, text, body) ==
    [kind |-> "response", status_code |-> status, text |-> text, body |-> body]
TransportError(ty, msg) == [kind |-> "exception", type |-> ty, msg |-> msg]

\* A success response whose body is the JSON document v
Ok200(v) == HttpResponse(200, JsonDumps(v), Json(v))

\* Response.ok: raise_for_status() would not raise
RespOk(r) == ~(400 <= r.status_code /\ r.status_code < 600)

\* Response.json(): the parsed document, or JSONDecodeError
RespJson(r) ==
    IF r.body.json THEN Ret(r.body.data)
    ELSE Raise("JSONDecodeError", "Expecting value: line 1 column 1 (char 0)")

-----------------------------------------------------------------------------
(* send_to_gemini. *)

\* a or b
PyOr(a, b) == IF Truthy(a) THEN a ELSE b

\* send_to_gemini reading GOOGLE_API_KEY alone
GeminiApiKey_GoogleOnly(e) == Getenv(e, "GOOGLE_API_KEY")

\* api_key = os.getenv("GOOGLE_API_KEY") or os.getenv("GEMINI_API_KEY")
GeminiApiKey(e) == PyOr(Getenv(e, "GOOGLE_API_KEY"), Getenv(e, "GEMINI_API_KEY"))

\* str.endswith("/")
EndsWithSlash(s) == Len(s) > 0 /\ CharAt(s, Len(s)) = "/"

\* url = f"{base}{model}:generateText?key={api_key}"
GeminiUrl(e, api_key) ==
    LET model == GetenvDefault(e, "GEMINI_MODEL", "models/text-bison-001")
        base0 == GetenvDefault(e, "GEMINI_BASE_URL",
                               "https://generativelanguage.googleapis.com/v1/")
        base  == IF EndsWithSlash(base0) THEN base0 ELSE base0 \o "/"
    IN  base \o model \o ":generateText?key=" \o api_key

GeminiConfigError == "GOOGLE_API_KEY (or GEMINI_API_KEY) not set"

\* The guard of the first extractor: data["candidates"][0] is a dict with "output"
HasCandidateOutput(data) ==
    /\ HasKey(data, "candidates")
    /\ IsInstance(GetItem(data, "candidates"), "list")
    /\ Truthy(GetItem(data, "candidates"))
    /\ IsInstance(GetItem(data, "candidates").items[1], "dict")
    /\ HasKey(GetItem(data, "candidates").items[1], "output")

\* The guard of the second extractor: data["outputs"][0] is a dict with "content"
HasOutputsContent(data) ==
    /\ HasKey(data, "outputs")
    /\ IsInstance(GetItem(data, "outputs"), "list")
    /\ Truthy(GetItem(data, "outputs"))
    /\ IsInstance(GetItem(data, "outputs").items[1], "dict")
    /\ HasKey(GetItem(data, "outputs").items[1], "content")

\* parts = [p.get("text", "") if isinstance(p, dict) else str(p) for p in content]
ContentParts(content) ==
    [i \in 1..Len(content.items) |->
        IF IsInstance(content.items[i], "dict")
        THEN DictGet(content.items[i], "text", PyStr(""))
        ELSE PyStr(ToStr(content.items[i]))]

\* "".join(parts).strip()
JoinAndStrip(parts) ==
    LET j == MethodJoin(parts)
    IN  IF j.kind = "raise" THEN j ELSE MethodStrip(j.val)

\* The shape-sniffing of send_to_gemini, from `data = resp.json()` on
GeminiExtract(data) ==
    IF IsInstance(data, "dict")
    THEN IF HasCandidateOutput(data)
         THEN MethodStrip(GetItem(GetItem(data, "candidates").items[1], "output"))
         ELSE IF HasOutputsContent(data)
         THEN LET content == DictGet(GetItem(data, "outputs").items[1], "content", PyNone)
              IN  IF IsInstance(content, "list")
                  THEN JoinAndStrip(ContentParts(content))
                  ELSE Ret(PyStr(Strip(ToStr(content))))
         ELSE IF HasKey(data, "output")
         THEN Ret(PyStr(Strip(ToStr(GetItem(data, "output")))))
         ELSE IF HasKey(data, "text")
         THEN Ret(PyStr(Strip(ToStr(GetItem(data, "text")))))
         ELSE Ret(PyStr(JsonDumps(data)))
    ELSE Ret(PyStr(JsonDumps(data)))

\* send_to_gemini from the return of requests.post on
GeminiHandle(r) ==
    IF r.kind = "exception" THEN Raise(r.type, r.msg)
    ELSE IF ~RespOk(r)
    THEN Raise("RuntimeError",
               "Gemini API error: " \o IntToStr(r.status_code) \o " " \o r.text)
    ELSE LET d == RespJson(r)
         IN  IF d.kind = "raise" THEN d ELSE GeminiExtract(d.val)

-----------------------------------------------------------------------------
(* send_to_huggingface. *)

HFUrl == "https://api-inference.huggingface.co/models/google/flan-t5-large"

HFConfigError == "HUGGINGFACE_API_TOKEN not set"

\* token = os.getenv("HUGGINGFACE_API_TOKEN")
HFToken(e) == Getenv(e, "HUGGINGFACE_API_TOKEN")

\* send_to_huggingface from `out = resp.json()` on
HFExtract(out) ==
    IF /\ IsInstance(out, "list")
       /\ Truthy(out)
       /\ IsInstance(out.items[1], "dict")
    THEN Ret(DictGet(out.items[1], "generated_text", PyStr(JsonDumps(out))))
    ELSE Ret(PyStr(JsonDumps(out)))

\* send_to_huggingface from the return of requests.post on
HFHandle(r) ==
    IF r.kind = "exception" THEN Raise(r.type, r.msg)
    ELSE IF ~RespOk(r)
    THEN Raise("RuntimeError",
               "HuggingFace API error: " \o IntToStr(r.status_code) \o " " \o r.text)
    ELSE LET d == RespJson(r)
         IN  IF d.kind = "raise" THEN d ELSE HFExtract(d.val)

-----------------------------------------------------------------------------
(* ask_llm. *)

\* `except RuntimeError` in the place of `except Exception`
ExceptException_RuntimeErrorOnly(ty) == ty = "RuntimeError"

\* `except Exception` catches every exception class below: all of them derive
\* from Exception (requests' ConnectionError, Timeout and JSONDecodeError too).
ExceptException(ty) ==
    ty \in {"RuntimeError", "AttributeError", "TypeError", "JSONDecodeError",
            "ConnectionError", "Timeout"}

\* str(e) of a caught exception
ExcStr(e) == e.msg

SimulatedPrefix ==
    "[SIMULATED RESPONSE \\u2014 no API key configured] " \o "Processed question: "

\* The dict ask_llm returns
AnswerRecord ==
    [question |-> question, processed |-> processed, prompt |-> prompt,
     answer |-> answer, source |-> source, errors |-> errors]

\* Locals not yet bound
Unbound == [t |-> "unbound"]

\* ask_llm(q) up to the first try: preprocess, construct_prompt, errors = []
AskLLM(q) ==
    /\ pc = "idle"
    /\ question' = q
    /\ processed' = preprocess(q)
    /\ prompt' = construct_prompt(preprocess(q))
    /\ errors' = <<>>
    /\ pc' = "try_gemini"
    /\ UNCHANGED <<env, answer, source, gemResp, gemOut, hfResp, hfOut, log,
                   posts, returned, raised>>

\* The outer try with the fallback not nested in the except clause: Provider
\* B is tried whatever Provider A did
AfterGemini_AlwaysFallsBack(lg, out) ==
    /\ gemOut' = out
    /\ log' = Append(lg, "gemini." \o out.kind)
    /\ pc' = "try_hf"
    /\ IF out.kind = "return"
       THEN /\ answer' = out.val
            /\ source' = "gemini"
            /\ UNCHANGED <<errors, raised>>
       ELSE /\ errors' = Append(errors, ExcStr(out))
            /\ UNCHANGED <<answer, source, raised>>

\* The outer try without errors.append(str(e))
AfterGemini_DropsError(lg, out) ==
    /\ gemOut' = out
    /\ log' = Append(lg, "gemini." \o out.kind)
    /\ UNCHANGED <<errors, raised>>
    /\ IF out.kind = "return"
       THEN /\ answer' = out.val
            /\ source' = "gemini"
            /\ pc' = "return"
       ELSE /\ pc' = "try_hf"
            /\ UNCHANGED <<answer, source>>

\* The outer try of ask_llm, once send_to_gemini has ended with `out`
AfterGemini(lg, out) ==
    /\ gemOut' = out
    /\ log' = Append(lg, "gemini." \o out.kind)
    /\ IF out.kind = "return"
       THEN /\ answer' = out.val
            /\ source' = "gemini"
            /\ pc' = "return"
            /\ UNCHANGED <<errors, raised>>
       ELSE IF ExceptException(out.type)
       THEN /\ errors' = Append(errors, ExcStr(out))
            /\ pc' = "try_hf"
            /\ UNCHANGED <<answer, source, raised>>
       ELSE /\ raised' = Append(raised, out)
            /\ pc' = "raised"
            /\ UNCHANGED <<answer, source, errors>>

\* answer = send_to_gemini(prompt), up to requests.post: the credential check,
\* which raises, or the request, which is sent
CallGemini ==
    /\ pc = "try_gemini"
    /\ LET api_key == GeminiApiKey(env)
       IN  IF ~Truthy(api_key)
           THEN /\ AfterGemini(Append(log, "gemini.invoke"),
                                Raise("RuntimeError", GeminiConfigError))
                /\ UNCHANGED <<posts>>
           ELSE /\ log' = Append(log, "gemini.invoke")
                /\ posts' = Append(posts, [to |-> "gemini",
                                           url |-> GeminiUrl(env, api_key.s),
                                           text |-> prompt])
                /\ pc' = "gemini_wait"
                /\ UNCHANGED <<gemOut, errors, answer, source, raised>>
    /\ UNCHANGED <<env, question, processed, prompt, gemResp, hfResp, hfOut,
                   returned>>

\* requests.post gives r to send_to_gemini, which runs to its end
GeminiRespond(r) ==
    /\ pc = "gemini_wait"
    /\ gemResp' = r
    /\ AfterGemini(log, GeminiHandle(r))
    /\ UNCHANGED <<env, question, processed, prompt, hfResp, hfOut, posts, returned>>

\* The inner try with the synthetic answer built from the raw question
AfterHF_RawQuestion(lg, out) ==
    /\ hfOut' = out
    /\ log' = Append(lg, "huggingface." \o out.kind)
    /\ pc' = "return"
    /\ UNCHANGED raised
    /\ IF out.kind = "return"
       THEN /\ answer' = out.val
            /\ source' = "huggingface"
            /\ UNCHANGED errors
       ELSE /\ errors' = Append(errors, ExcStr(out))
            /\ answer' = PyStr(SimulatedPrefix \o question)
            /\ source' = "simulated"

\* The inner try appending str(e), the first failure, in the place of str(e2)
AfterHF_AppendsFirstError(lg, out) ==
    /\ hfOut' = out
    /\ log' = Append(lg, "huggingface." \o out.kind)
    /\ pc' = "return"
    /\ UNCHANGED raised
    /\ IF out.kind = "return"
       THEN /\ answer' = out.val
            /\ source' = "huggingface"
            /\ UNCHANGED errors
       ELSE /\ errors' = Append(errors, errors[1])
            /\ answer' = PyStr(SimulatedPrefix \o processed)
            /\ source' = "simulated"

\* The inner try of ask_llm, once send_to_huggingface has ended with `out`
AfterHF(lg, out) ==
    /\ hfOut' = out
    /\ log' = Append(lg, "huggingface." \o out.kind)
    /\ IF out.kind = "return"
       THEN /\ answer' = out.val
            /\ source' = "huggingface"
            /\ pc' = "return"
            /\ UNCHANGED <<errors, raised>>
       ELSE IF ExceptException(out.type)
       THEN /\ errors' = Append(errors, ExcStr(out))
            /\ answer' = PyStr(SimulatedPrefix \o processed)
            /\ source' = "simulated"
            /\ pc' = "return"
            /\ UNCHANGED <<raised>>
       ELSE /\ raised' = Append(raised, out)
            /\ pc' = "raised"
            /\ UNCHANGED <<answer, source, errors>>

\* answer = send_to_huggingface(prompt), up to requests.post
CallHF ==
    /\ pc = "try_hf"
    /\ LET token == HFToken(env)
       IN  IF ~Truthy(token)
           THEN /\ AfterHF(Append(log, "huggingface.invoke"),
                            Raise("RuntimeError", HFConfigError))
                /\ UNCHANGED <<posts>>
           ELSE /\ log' = Append(log, "huggingface.invoke")
                /\ posts' = Append(posts, [to |-> "huggingface",
                                           url |-> HFUrl,
                                           text |-> prompt])
                /\ pc' = "hf_wait"
                /\ UNCHANGED <<hfOut, errors, answer, source, raised>>
    /\ UNCHANGED <<env, question, processed, prompt, gemResp, gemOut, hfResp,
                   returned>>

\* requests.post gives r to send_to_huggingface, which runs to its end
HFRespond(r) ==
    /\ pc = "hf_wait"
    /\ hfResp' = r
    /\ AfterHF(log, HFHandle(r))
    /\ UNCHANGED <<env, question, processed, prompt, gemResp, gemOut, posts, returned>>

\* return {...}
Return ==
    /\ pc = "return"
    /\ returned' = Append(returned, AnswerRecord)
    /\ pc' = "done"
    /\ UNCHANGED <<env, question, processed, prompt, errors, answer, source,
                   gemResp, gemOut, hfResp, hfOut, log, posts, raised>>

-----------------------------------------------------------------------------
(* The inputs: the environment, the questions, and what the network answers. *)

Questions == {"What is the Capital of France?", "Hello, World!", " "}

Envs ==
    {[n \in EnvNames |->
        CASE n = "GOOGLE_API_KEY"        -> g
          [] n = "GEMINI_API_KEY"        -> m
          [] n = "HUGGINGFACE_API_TOKEN" -> h
          [] n = "GEMINI_BASE_URL"       -> b
          [] OTHER                       -> Unset] :
        g \in {Unset, Val(""), Val("gk")},
        m \in {Unset, Val(""), Val("mk")},
        h \in {Unset, Val(""), Val("hf")},
        b \in {Unset, Val("http://localhost:8080")}}

Candidates(v) == <<"candidates", PyList(<<PyDict(<< <<"output", v>> >>)>>)>>
Outputs(v)    == <<"outputs", PyList(<<PyDict(<< <<"content", v>> >>)>>)>>
TextPart(v)   == PyDict(<< <<"text", v>> >>)

\* JSON documents a success response of Provider A may hold
GeminiBodies ==
    { PyDict(<<Candidates(PyStr("Paris"))>>),
      PyDict(<<Candidates(PyStr(" Paris \n"))>>),
      PyDict(<<Candidates(PyStr("  "))>>),
      PyDict(<<Candidates(PyInt(5))>>),
      PyDict(<<Candidates(PyNone)>>),
      PyDict(<<Candidates(PyStr("A")), Outputs(PyStr("B")),
               <<"output", PyStr("C")>>, <<"text", PyStr("D")>> >>),
      PyDict(<< <<"candidates", PyList(<<>>)>>,
                Outputs(PyList(<<TextPart(PyStr("Par")), TextPart(PyStr("is"))>>)) >>),
      PyDict(<< <<"candidates", PyList(<<TextPart(PyStr("x"))>>)>>,
                Outputs(PyStr("Paris ")), <<"output", PyStr("C")>> >>),
      PyDict(<< <<"candidates", PyList(<<PyStr("x")>>)>>, <<"output", PyStr(" O")>> >>),
      PyDict(<< <<"candidates", PyNone>>, <<"text", PyStr("T")>> >>),
      PyDict(<<Outputs(PyList(<<TextPart(PyStr("a")), TextPart(PyInt(5))>>))>>),
      PyDict(<<Outputs(PyList(<<PyStr("a"), PyInt(5), PyDict(<< <<"other", PyInt(1)>> >>)>>))>>),
      PyDict(<<Outputs(PyList(<<>>))>>),
      PyDict(<<Outputs(PyInt(5)), <<"text", PyStr("T")>> >>),
      PyDict(<<Outputs(TextPart(PyStr("it's"))), <<"output", PyStr("C")>> >>),
      PyDict(<< <<"outputs", PyList(<<PyDict(<<>>)>>)>>, <<"output", PyInt(5)>>,
                <<"text", PyStr("T")>> >>),
      PyDict(<< <<"outputs", PyList(<<>>)>>, <<"text", PyNone>> >>),
      PyDict(<< <<"text", PyStr("")>> >>),
      PyDict(<< <<"foo", PyStr("b\"ar")>> >>),
      PyDict(<<>>),
      PyList(<<PyStr("Paris")>>),
      PyStr("Paris"),
      PyNone }

\* What requests.post may give send_to_gemini
GeminiResponses ==
    { TransportError("ConnectionError", "Connection refused"),
      TransportError("Timeout", "Read timed out. (read timeout=60)"),
      HttpResponse(403, "Forbidden", NotJson),
      HttpResponse(500, "{\"error\": \"internal\"}",
                   Json(PyDict(<< <<"error", PyStr("internal")>> >>))),
      HttpResponse(200, "<html>", NotJson) }
    \cup {Ok200(b) : b \in GeminiBodies}

Generated(v) == PyList(<<PyDict(<< <<"generated_text", v>> >>)>>)

\* JSON documents a success response of Provider B may hold
HFBodies ==
    { Generated(PyStr("Paris")),
      Generated(PyStr(" Paris\n")),
      Generated(PyStr("")),
      Generated(PyNone),
      Generated(PyInt(5)),
      PyList(<<PyDict(<< <<"other", PyStr("x")>> >>)>>),
      PyList(<<PyStr("x")>>),
      PyList(<<>>),
      PyDict(<< <<"error", PyStr("Model is loading")>> >>),
      PyNone }

\* What requests.post may give send_to_huggingface
HFResponses ==
    { TransportError("ConnectionError", "Connection refused"),
      HttpResponse(403, "Forbidden", NotJson),
      HttpResponse(503, "{\"error\": \"Model is loading\"}",
                   Json(PyDict(<< <<"error", PyStr("Model is loading")>> >>))),
      HttpResponse(200, "", NotJson) }
    \cup {Ok200(b) : b \in HFBodies}

-----------------------------------------------------------------------------
(* The relay: one query, from the call of ask_llm to its return. *)

Blank ==
    /\ processed = ""
    /\ prompt = ""
    /\ errors = <<>>
    /\ answer = Unbound
    /\ source = ""
    /\ gemResp = NoResp
    /\ gemOut = NotCalled
    /\ hfResp = NoResp
    /\ hfOut = NotCalled
    /\ log = <<>>
    /\ posts = <<>>
    /\ returned = <<>>
    /\ raised = <<>>

Init ==
    /\ env \in Envs
    /\ pc = "idle"
    /\ question = ""
    /\ Blank

Next ==
    \/ \E q \in Questions : AskLLM(q)
    \/ CallGemini
    \/ \E r \in GeminiResponses : GeminiRespond(r)
    \/ CallHF
    \/ \E r \in HFResponses : HFRespond(r)
    \/ Return

Spec == Init /\ [][Next]_vars

-----------------------------------------------------------------------------
(* The normalizer alone, on every string up to MaxLen over a small alphabet. *)

NormAlphabet == {"A", "b", "_", "!", " ", "\t"}

RECURSIVE StringsUpTo(_)
StringsUpTo(n) ==
    IF n = 0 THEN {""}
    ELSE LET S == StringsUpTo(n - 1)
         IN  S \cup {s \o c : s \in S, c \in NormAlphabet}

InitNorm ==
    /\ env \in {[n \in EnvNames |-> Unset]}
    /\ pc = "norm"
    /\ question \in StringsUpTo(MaxLen)
    /\ Blank

\* processed = preprocess(question)
Normalize ==
    /\ pc = "norm"
    /\ processed' = preprocess(question)
    /\ pc' = "normalized"
    /\ UNCHANGED <<env, question, prompt, errors, answer, source, gemResp, gemOut, hfResp,
                   hfOut, log, posts, returned, raised>>

NextNorm == Normalize

SpecNorm == InitNorm /\ [][NextNorm]_vars

-----------------------------------------------------------------------------
(* Helpers of the properties below. *)

\* sub occurs in s
Contains(s, sub) ==
    \E i \in 1..(Len(s) - Len(sub) + 1) : SubSeq(s, i, i + Len(sub) - 1) = sub

EndsWith(s, suffix) ==
    /\ Len(s) >= Len(suffix)
    /\ SubSeq(s, Len(s) - Len(suffix) + 1, Len(s)) = suffix

\* How often event ev is in the log
Count(ev) == Cardinality({i \in 1..Len(log) : log[i] = ev})

\* Adapter a has been invoked and has not ended
InFlight(a) ==
    /\ Count(a \o ".invoke") > 0
    /\ Count(a \o ".return") + Count(a \o ".raise") = 0

\* The response r is a success status with a JSON document in it
IsJsonSuccess(r) == r.kind = "response" /\ RespOk(r) /\ r.body.json

Failed(out) == out.kind = "raise"
Succeeded(out) == out.kind = "return"

-----------------------------------------------------------------------------
(* C1: ask_llm never raises to its caller: whatever the two adapters do     *)
(* (missing credential, non-success status, an exception while parsing a   *)
(* success response, a transport exception), no exception reaches the      *)
(* caller, the call can always take its next step until it has returned,   *)
(* and it returns exactly one record with the fields question, processed,  *)
(* prompt, answer, source and errors.                                      *)
C1_NeverRaises ==
    /\ raised = <<>>
    /\ pc # "raised"
    /\ pc = "done" \/ ENABLED Next
    /\ Len(returned) = (IF pc = "done" THEN 1 ELSE 0)
    /\ pc = "done" =>
          /\ DOMAIN returned[1] =
                {"question", "processed", "prompt", "answer", "source", "errors"}
          /\ returned[1].question = question
          /\ returned[1].processed = preprocess(question)
          /\ returned[1].prompt = construct_prompt(preprocess(question))

\* A query that returned although Provider A raised while parsing a success
\* response and Provider B met a transport exception
C1_Witness ==
    /\ pc = "done"
    /\ Len(returned) = 1
    /\ Failed(gemOut) /\ gemOut.type = "AttributeError"
    /\ Failed(hfOut) /\ hfOut.type = "ConnectionError"

(* C2: within one call the providers are tried strictly in the order       *)
(* Gemini, HuggingFace: send_to_huggingface is invoked only after          *)
(* send_to_gemini has ended in a failure, each adapter is invoked at most  *)
(* once, the two are never in flight together, and nothing is invoked once *)
(* an adapter has succeeded.                                               *)
C2_StrictOrder ==
    /\ Count("gemini.invoke") <= 1
    /\ Count("huggingface.invoke") <= 1
    /\ \A i \in 1..Len(log) :
          log[i] = "huggingface.invoke" =>
              \E j \in 1..(i - 1) : log[j] = "gemini.raise"
    /\ ~(InFlight("gemini") /\ InFlight("huggingface"))
    /\ \A j \in 1..Len(log) :
          log[j] \in {"gemini.return", "huggingface.return"} => j = Len(log)
    /\ \A i \in 1..Len(posts) :
          posts[i].to = "huggingface" => ~InFlight("gemini")
    /\ Len(posts) <= 2
    /\ Len(posts) = 2 => posts[1].to = "gemini" /\ posts[2].to = "huggingface"

\* Provider A was tried and failed, then Provider B was tried and succeeded
C2_Witness ==
    log = <<"gemini.invoke", "gemini.raise", "huggingface.invoke", "huggingface.return">>

(* C3: if Provider A fails for any reason, a non-success status such as    *)
(* 403 included, and Provider B then succeeds, the returned record has     *)
(* source "huggingface", its answer is the value Provider B returned and   *)
(* Provider A's error message is in its errors; a 403 from Provider A is   *)
(* an error holding "403", after which Provider B is tried.                *)
C3_FallbackToB ==
    /\ (pc = "done" /\ Failed(gemOut) /\ Succeeded(hfOut)) =>
          /\ returned[1].source = "huggingface"
          /\ returned[1].answer = hfOut.val
          /\ \E i \in 1..Len(returned[1].errors) : returned[1].errors[i] = gemOut.msg
    /\ (gemResp.kind = "response" /\ gemResp.status_code = 403) =>
          /\ Failed(gemOut)
          /\ Contains(gemOut.msg, "403")
          /\ \E i \in 1..Len(errors) : errors[i] = gemOut.msg
          /\ pc \in {"try_hf", "hf_wait", "return", "done"}
          /\ pc # "try_hf" => Count("huggingface.invoke") = 1

\* Provider A answered 403 and Provider B's answer was returned
C3_Witness ==
    /\ pc = "done"
    /\ gemResp.kind = "response" /\ gemResp.status_code = 403
    /\ Succeeded(hfOut)
    /\ returned[1].source = "huggingface"
    /\ returned[1].answer = PyStr("Paris")

(* C4: the synthetic answer is produced exactly when every provider fails: *)
(* the record's source is "simulated" if and only if both adapters failed, *)
(* and then its answer is the fixed prefix followed by the processed       *)
(* question.                                                               *)
C4_SimulatedIffAllFail ==
    pc = "done" =>
       /\ (returned[1].source = "simulated") <=> (Failed(gemOut) /\ Failed(hfOut))
       /\ returned[1].source = "simulated" =>
             returned[1].answer =
                PyStr("[SIMULATED RESPONSE \\u2014 no API key configured] Processed question: "
                      \o preprocess(returned[1].question))

\* Both adapters failed on a question the normalizer changes
C4_Witness ==
    /\ pc = "done"
    /\ Failed(gemOut) /\ Failed(hfOut)
    /\ returned[1].source = "simulated"
    /\ returned[1].question = "What is the Capital of France?"
    /\ returned[1].processed = "what is the capital of france"

(* C5: an adapter fails only for a missing credential or a network or      *)
(* HTTP-level error: on a success status with a JSON document, whatever    *)
(* its shape, send_to_gemini and send_to_huggingface return a value and    *)
(* raise nothing.                                                          *)
C5_NoParseFailure ==
    /\ (IsJsonSuccess(gemResp) /\ gemOut # NotCalled) => Succeeded(gemOut)
    /\ (IsJsonSuccess(hfResp) /\ hfOut # NotCalled) => Succeeded(hfOut)

(* C6: an adapter that returns, returns a non-empty string: never an empty *)
(* string and never a value that is not a string.                          *)
C6_NonEmptyString ==
    /\ Succeeded(gemOut) => (gemOut.val.t = "str" /\ gemOut.val.s # "")
    /\ Succeeded(hfOut) => (hfOut.val.t = "str" /\ hfOut.val.s # "")

\* The four extractors as the claim states them, each a match or none: a
\* shape an extractor cannot take (an output that is no string, a fragment
\* whose text is no string) is no match and falls through to the next.
C7_Extractors(d) ==
    LET cands   == GetItem(d, "candidates").items
        outs    == GetItem(d, "outputs").items
        content == GetItem(outs[1], "content")
        parts   == ContentParts(content)
        none    == [match |-> FALSE]
        some(x) == [match |-> TRUE, text |-> x]
    IN  << IF HasCandidateOutput(d) /\ GetItem(cands[1], "output").t = "str"
           THEN some(Strip(GetItem(cands[1], "output").s)) ELSE none,
           IF HasOutputsContent(d)
           THEN IF content.t = "list"
                THEN IF \A i \in 1..Len(parts) : parts[i].t = "str"
                     THEN some(Strip(Join("", [i \in 1..Len(parts) |-> parts[i].s])))
                     ELSE none
                ELSE some(Strip(ToStr(content)))
           ELSE none,
           IF HasKey(d, "output") THEN some(Strip(ToStr(GetItem(d, "output")))) ELSE none,
           IF HasKey(d, "text") THEN some(Strip(ToStr(GetItem(d, "text")))) ELSE none >>

\* The result of the first extractor that matches, else the raw JSON text
C7_Expected(data) ==
    IF data.t # "dict" THEN JsonDumps(data)
    ELSE LET ex == C7_Extractors(data)
         IN  IF \E i \in 1..4 : ex[i].match
             THEN ex[CHOOSE i \in 1..4 :
                        ex[i].match /\ \A j \in 1..(i - 1) : ~ex[j].match].text
             ELSE JsonDumps(data)

(* C7: on a success response send_to_gemini applies the extractors in the  *)
(* order (a) first candidate's output, (b) first outputs element's content *)
(* (fragments concatenated, or a plain string), (c) top-level output,      *)
(* (d) top-level text, and returns the result of the first that matches;   *)
(* a shape that does not match falls through, and when none matches the    *)
(* raw JSON text is returned. The body {"candidates":[{"output":"Paris"}]} *)
(* yields "Paris" with source "gemini".                                    *)
C7_ExtractorOrder ==
    /\ (IsJsonSuccess(gemResp) /\ gemOut # NotCalled) =>
          gemOut = Ret(PyStr(C7_Expected(gemResp.body.data)))
    /\ (pc = "done" /\ gemResp = Ok200(PyDict(<<Candidates(PyStr("Paris"))>>))) =>
          /\ returned[1].answer = PyStr("Paris")
          /\ returned[1].source = "gemini"

\* The first non-empty of GOOGLE_API_KEY and GEMINI_API_KEY, if there is one
C8_GeminiCredential(e) ==
    IF e["GOOGLE_API_KEY"].set /\ e["GOOGLE_API_KEY"].s # ""
    THEN e["GOOGLE_API_KEY"]
    ELSE IF e["GEMINI_API_KEY"].set /\ e["GEMINI_API_KEY"].s # ""
    THEN e["GEMINI_API_KEY"]
    ELSE Unset

C8_HFCredential(e) ==
    IF e["HUGGINGFACE_API_TOKEN"].set /\ e["HUGGINGFACE_API_TOKEN"].s # ""
    THEN e["HUGGINGFACE_API_TOKEN"]
    ELSE Unset

C8_PostsTo(a) == {i \in 1..Len(posts) : posts[i].to = a}

(* C8: an adapter whose credential is absent fails at once with a          *)
(* configuration error and makes no request: send_to_gemini uses the first *)
(* non-empty of GOOGLE_API_KEY and GEMINI_API_KEY and fails before any     *)
(* request exactly when both are unset or empty; send_to_huggingface fails *)
(* before any request exactly when HUGGINGFACE_API_TOKEN is unset or       *)
(* empty; a query with no credential at all makes no request.              *)
C8_NoCredentialNoCall ==
    /\ Count("gemini.invoke") > 0 =>
          IF C8_GeminiCredential(env).set
          THEN /\ Cardinality(C8_PostsTo("gemini")) = 1
               /\ \A i \in C8_PostsTo("gemini") :
                     EndsWith(posts[i].url, "?key=" \o C8_GeminiCredential(env).s)
               /\ gemOut # Raise("RuntimeError", "GOOGLE_API_KEY (or GEMINI_API_KEY) not set")
          ELSE /\ C8_PostsTo("gemini") = {}
               /\ gemOut = Raise("RuntimeError", "GOOGLE_API_KEY (or GEMINI_API_KEY) not set")
               /\ gemResp = NoResp
    /\ Count("huggingface.invoke") > 0 =>
          IF C8_HFCredential(env).set
          THEN /\ Cardinality(C8_PostsTo("huggingface")) = 1
               /\ hfOut # Raise("RuntimeError", "HUGGINGFACE_API_TOKEN not set")
          ELSE /\ C8_PostsTo("huggingface") = {}
               /\ hfOut = Raise("RuntimeError", "HUGGINGFACE_API_TOKEN not set")
               /\ hfResp = NoResp
    /\ (~C8_GeminiCredential(env).set /\ ~C8_HFCredential(env).set) => posts = <<>>

\* A query that ended with no credential configured: both adapters failed
\* with their configuration errors and no request was made
C8_Witness ==
    /\ pc = "done"
    /\ ~C8_GeminiCredential(env).set /\ ~C8_HFCredential(env).set
    /\ posts = <<>>
    /\ returned[1].errors = <<"GOOGLE_API_KEY (or GEMINI_API_KEY) not set",
                              "HUGGINGFACE_API_TOKEN not set">>

\* s is what the normalizer's output must look like
C9_Normal(s) ==
    /\ Lower(s) = s
    /\ \A i \in 1..Len(s) : IsWord(CharAt(s, i)) \/ CharAt(s, i) = " "
    /\ Len(s) > 0 => (CharAt(s, 1) # " " /\ CharAt(s, Len(s)) # " ")
    /\ \A i \in 1..(Len(s) - 1) : ~(CharAt(s, i) = " " /\ CharAt(s, i + 1) = " ")

(* C9: the normalizer is idempotent, preprocess(preprocess(x)) =            *)
(* preprocess(x), and its output is lowercase, holds only word characters  *)
(* and single spaces, and has no leading, trailing or doubled space.       *)
C9_Idempotent ==
    pc = "normalized" =>
       /\ preprocess(processed) = processed
       /\ C9_Normal(processed)

\* A question with an upper-case letter, punctuation between two spaces and
\* a second token has been normalized
C9_Witness ==
    /\ pc = "normalized"
    /\ question = "A ! b"
    /\ processed = "a b"

(* C10: in every returned record the errors list is determined by the      *)
(* source: "gemini" means no entry, "huggingface" exactly Provider A's     *)
(* failure message, "simulated" exactly Provider A's then Provider B's;    *)
(* the entries are the messages of the adapters that failed, in the order  *)
(* they were tried.                                                        *)
C10_ErrorsBySource ==
    pc = "done" =>
       LET r == returned[1]
           failures == (IF Failed(gemOut) THEN <<gemOut.msg>> ELSE <<>>)
                       \o (IF Failed(hfOut) THEN <<hfOut.msg>> ELSE <<>>)
       IN  /\ r.source \in {"gemini", "huggingface", "simulated"}
           /\ r.source = "gemini" => r.errors = <<>>
           /\ r.source = "huggingface" => r.errors = <<gemOut.msg>>
           /\ r.source = "simulated" => r.errors = <<gemOut.msg, hfOut.msg>>
           /\ r.errors = failures

\* A simulated record whose two entries differ: Provider A's parse failure,
\* then Provider B's HTTP error
C10_Witness ==
    /\ pc = "done"
    /\ returned[1].source = "simulated"
    /\ returned[1].errors = <<"'int' object has no attribute 'strip'",
                              "HuggingFace API error: 403 Forbidden">>

=============================================================================
